---- MODULE Spec2Model ----
(***************************************************************************)
(* PDF-ChatBot-Backend: the upload endpoint and PDFProcessor (ingestion,   *)
(* persisted FAISS indices), the ChatStorage session registry, and         *)
(* ChatService.get_response (the search -> model workflow and the history  *)
(* append), as a state machine of requests whose steps may interleave.     *)
(***************************************************************************)
EXTENDS Integers, Sequences, FiniteSets, TLC

\* Number of requests (uploads and chat calls together) a behaviour issues.
MaxCalls == 3

\* Number of times an index file is deleted from outside the program.
MaxDeletes == 1

\* Number of requests that are handled at the same time.
MaxInFlight == 2

Workers == 1 .. MaxInFlight
Refs == 1 .. MaxCalls

(***************************************************************************)
(* Values: Python strings are sequences of characters, wrapped so that a   *)
(* value that is not a str can be passed where a str is expected.          *)
(***************************************************************************)
Str(s) == [isstr |-> TRUE, chars |-> s]
NotAStr == [isstr |-> FALSE, chars |-> <<>>]

Whitespace == {" ", "\n", "\t"}

RECURSIVE LStrip(_)
LStrip(s) ==
    IF s # <<>> /\ Head(s) \in Whitespace THEN LStrip(Tail(s)) ELSE s

RECURSIVE RStrip(_)
RStrip(s) ==
    IF s # <<>> /\ s[Len(s)] \in Whitespace
    THEN RStrip(SubSeq(s, 1, Len(s) - 1))
    ELSE s

\* str.strip()
Strip(s) == RStrip(LStrip(s))

\* an input check that forgets the strip()
IsNonEmptyStrUnstripped(v) == v.isstr /\ v.chars # <<>>

\* `isinstance(v, str) and v.strip()` of the two input checks
IsNonEmptyStr(v) == v.isstr /\ Strip(v.chars) # <<>>

RECURSIVE Join(_, _)
\* sep.join(parts)
Join(sep, parts) ==
    IF parts = <<>> THEN <<>>
    ELSE IF Len(parts) = 1 THEN parts[1]
    ELSE parts[1] \o sep \o Join(sep, Tail(parts))

(***************************************************************************)
(* utils/text_splitter.py: CharacterTextSplitter(separator="\n",           *)
(* chunk_size=1000, chunk_overlap=200, length_function=len).split_text     *)
(***************************************************************************)
Separator == <<"\n">>
ChunkSize == 1000
ChunkOverlap == 200

\* text.split(sep) for a one-character separator: the pieces between the
\* places of the separator, the empty ones included
SplitOn(text, sep) ==
    LET bounds == {0, Len(text) + 1}
                     \cup { i \in 1 .. Len(text) : <<text[i]>> = sep }
        bound(k) == CHOOSE b \in bounds :
                        Cardinality({ x \in bounds : x < b }) = k
    IN [k \in 1 .. Cardinality(bounds) - 1
           |-> SubSeq(text, bound(k - 1) + 1, bound(k) - 1)]

\* the splits that are kept: [s for s in splits if s != ""]
NonEmptySplits(text) == SelectSeq(SplitOn(text, Separator), LAMBDA s : s # <<>>)

\* _join_docs: join, strip, and None (here <<>>) when nothing is left
JoinDocs(docs) == Strip(Join(Separator, docs))

DocsPlus(docs, current_doc) ==
    IF JoinDocs(current_doc) = <<>> THEN docs ELSE Append(docs, JoinDocs(current_doc))

SepLenIf(cond) == IF cond THEN Len(Separator) ELSE 0

RECURSIVE PopFront(_, _, _)
\* the `while total > chunk_overlap or (... > chunk_size and total > 0)` loop
\* returns <<current_doc, total>>
PopFront(current_doc, total, len) ==
    IF total > ChunkOverlap
       \/ (total + len + SepLenIf(Len(current_doc) > 0) > ChunkSize /\ total > 0)
    THEN PopFront(Tail(current_doc),
                  total - (Len(Head(current_doc)) + SepLenIf(Len(current_doc) > 1)),
                  len)
    ELSE <<current_doc, total>>

RECURSIVE MergeSplits(_, _, _, _)
\* _merge_splits: docs built so far, the current doc and its total length
MergeSplits(splits, docs, current_doc, total) ==
    IF splits = <<>> THEN DocsPlus(docs, current_doc)
    ELSE LET d == Head(splits)
             len == Len(d)
             over == total + len + SepLenIf(Len(current_doc) > 0) > ChunkSize
             flush == over /\ Len(current_doc) > 0
             docs1 == IF flush THEN DocsPlus(docs, current_doc) ELSE docs
             popped == IF flush THEN PopFront(current_doc, total, len)
                       ELSE <<current_doc, total>>
             doc2 == Append(popped[1], d)
             total2 == popped[2] + len + SepLenIf(Len(doc2) > 1)
         IN MergeSplits(Tail(splits), docs1, doc2, total2)

\* split_text(text): the chunk sequence
split_text(text) == MergeSplits(NonEmptySplits(text), <<>>, <<>>, 0)

(***************************************************************************)
(* PDF files and the text PyPDF2 extracts from them                        *)
(***************************************************************************)
NoFile == [exists |-> FALSE, readable |-> FALSE, pages |-> <<>>]
Pdf(pages) == [exists |-> TRUE, readable |-> TRUE, pages |-> pages]
NotAPdf == [exists |-> TRUE, readable |-> FALSE, pages |-> <<>>]

\* "".join(page.extract_text() for page in pages if page.extract_text())
ExtractedText(pages) == Join(<<>>, SelectSeq(pages, LAMBDA t : t # <<>>))

\* What a client may upload: a file that is no PDF, a PDF whose one page has
\* no text, and two PDFs with different text.
Uploads ==
    { NotAPdf,
      Pdf(<< <<>> >>),
      Pdf(<< <<"x">> >>),
      Pdf(<< <<"y", "\n">>, <<>>, <<"z", " ">> >>) }

FileNames == {"f.pdf", "g.pdf"}

UPLOAD_DIRECTORY == "./uploads"
\* os.path.join(UPLOAD_DIRECTORY, file.filename)
UploadPath(name) == <<UPLOAD_DIRECTORY, name>>

(***************************************************************************)
(* Knowledge bases (FAISS indices) in memory and on disk                   *)
(***************************************************************************)
\* valid: the object has a similarity_search method; docs_ok: the documents
\* it returns have a page_content
NoKB == [valid |-> FALSE, docs_ok |-> FALSE, chunks |-> <<>>]
KB(chunks) == [valid |-> TRUE, docs_ok |-> TRUE, chunks |-> chunks]

Absent == [state |-> "absent", chunks |-> <<>>]
Corrupt == [state |-> "corrupt", chunks |-> <<>>]
\* a save that writes nothing
SavedNowhere(kb) == [state |-> "absent", chunks |-> <<>>]

\* what save_local leaves under the path
Saved(kb) == [state |-> "ok", chunks |-> kb.chunks]

\* a generator that returns the same id every time
uuid4Fixed(earlier) == <<"a">>

\* uuid4() as a string: the values it returns in a behaviour are distinct, and
\* the n-th of them is named by the n-th letter
UuidChars == <<"a", "b", "c", "d", "e", "f", "g", "h">>
Uuids == { <<UuidChars[n]>> : n \in 1 .. MaxCalls }
uuid4(earlier) == <<UuidChars[Cardinality(earlier) + 1]>>

\* a path that is the same for every chat id
EmbeddingPathShared(chat_id) == <<"storage", "embeddings", <<".faiss">> >>

\* self.embeddings_dir / f"{chat_id}.faiss"
EmbeddingPath(chat_id) == <<"storage", "embeddings", chat_id \o <<".faiss">> >>

\* the paths under which the program keeps indices
Paths == { EmbeddingPath(u) : u \in Uuids }

\* a search result: a Document, or an object without page_content
Document(page_content, ok) == [has_page_content |-> ok, page_content |-> page_content]

\* similarity_search(query) with the default k: the k best chunks
TopK == 4
similarity_search(kb, query) ==
    [i \in 1 .. (IF Len(kb.chunks) < TopK THEN Len(kb.chunks) ELSE TopK)
        |-> Document(kb.chunks[i], kb.docs_ok)]

(***************************************************************************)
(* Messages, the workflow state and the prompt                             *)
(***************************************************************************)
HumanMessage(content) == [role |-> "human", content |-> content]
AIMessage(content) == [role |-> "ai", content |-> content]

EmptyState == [messages |-> <<>>, context |-> <<>>]

\* the combined_input f-string of _call_model
Prompt(pdf_context, user_question) ==
    <<"Context from PDF:\n">> \o pdf_context
      \o <<"\n\nUser Question: ">> \o user_question
      \o <<"\n\nPlease provide a response based on the context above.">>

\* the text outputs the language model may give
Answers == { <<"A">>, <<"B">> }

\* what a client may send as chat id and as question
ChatIdInputs == { Str(u) : u \in Uuids } \cup { Str(<<" ">>), NotAStr }
QuestionInputs == { Str(<<"q", " ">>), Str(<<" ">>), NotAStr }

(***************************************************************************)
(* State                                                                   *)
(***************************************************************************)
VARIABLES
    files,       \* the upload directory: file name -> file
    persisted,   \* storage/embeddings: path -> index on disk
    storage,     \* ChatStorage._storage: chat id -> PDFChat object (0: no key)
    objs,        \* the PDFChat objects, numbered as they are created
    memory,      \* MemorySaver: thread id -> last checkpoint of the workflow
    generated,   \* the chat ids uuid4 has returned
    now,         \* the clock datetime.utcnow reads
    calls,       \* per worker, its current or last request: inputs, position,
                 \* locals and outcome
    n_started,   \* the number of requests so far
    n_deleted,   \* how often an index file was deleted from outside the program
    ingested,    \* per chat id: did process_pdf return it, and with which chunks
    n_returned   \* per PDFChat object: the chat calls that returned on it

vars == <<files, persisted, storage, objs, memory, generated, now, calls,
          n_started, n_deleted, ingested, n_returned>>

NoObject == [allocated |-> FALSE, knowledge_base |-> NoKB, messages |-> <<>>,
             metadata |-> [file_path |-> <<>>, file_name |-> "", created_at |-> 0],
             created_at |-> 0]

\* PDFChat(knowledge_base=..., metadata={...}): messages defaults to []
PDFChat(knowledge_base, file_path, file_name, t) ==
    [allocated |-> TRUE, knowledge_base |-> knowledge_base, messages |-> <<>>,
     metadata |-> [file_path |-> file_path, file_name |-> file_name, created_at |-> t],
     created_at |-> t + 1]

IdleCall ==
    [kind |-> "idle", pc |-> "idle",
     chat_id |-> NotAStr, question |-> NotAStr, file_name |-> "",
     text |-> <<>>, knowledge_base |-> NoKB, chat_data |-> 0,
     state |-> EmptyState,
     exc |-> "none", error |-> "",
     response |-> <<>>, chat_history |-> <<>>,
     \* what the request has done so far (known: the registry held the chat
     \* id when the request arrived)
     known |-> FALSE, seen |-> <<>>, found_absent |-> FALSE,
     n_load |-> 0, n_build |-> 0, n_save |-> 0, n_search |-> 0, n_invoke |-> 0,
     query |-> <<>>, searched |-> NoKB, prompt |-> <<>>, model_out |-> <<>>]

Init ==
    /\ files = [n \in FileNames |-> NoFile]
    /\ persisted = [path \in Paths |-> Absent]
    /\ storage = [u \in Uuids |-> 0]
    /\ objs = [r \in Refs |-> NoObject]
    /\ memory = [u \in Uuids |-> EmptyState]
    /\ generated = {}
    /\ now = 0
    /\ calls = [p \in Workers |-> IdleCall]
    /\ n_started = 0
    /\ n_deleted = 0
    /\ ingested = [u \in Uuids |-> [returned |-> FALSE, chunks |-> <<>>]]
    /\ n_returned = [r \in Refs |-> 0]

(***************************************************************************)
(* ChatStorage                                                             *)
(***************************************************************************)
\* ChatStorage.get: the object stored under chat_id, or None (0)
ChatStorageGet(st, chat_id) ==
    IF chat_id \in DOMAIN st THEN st[chat_id] ELSE 0

\* a __setitem__ that stores nothing
ChatStorageSetNothing(st, chat_id, chat) == st

\* ChatStorage.__setitem__
ChatStorageSet(st, chat_id, chat) == [st EXCEPT ![chat_id] = chat]

\* ChatStorage.update
ChatStorageUpdate(st, chat_id, chat) == [st EXCEPT ![chat_id] = chat]

\* worker p is free when it handles no request; a new request goes to the
\* free worker of the lowest number
Free(p) == calls[p].pc \in {"idle", "done"}

CanStart(p) ==
    /\ n_started < MaxCalls
    /\ Free(p)
    /\ \A q \in Workers : Free(q) => p <= q

\* the number of the next PDFChat object
NewRef == Cardinality({ r \in Refs : objs[r].allocated }) + 1

\* a request returns or raises: its record is final
Finish(p, rec) ==
    calls' = [calls EXCEPT ![p] = [rec EXCEPT !.pc = "done"]]

Raise(p, rec, exc, error) ==
    Finish(p, [rec EXCEPT !.exc = exc, !.error = error])

Goto(p, rec, pc) ==
    calls' = [calls EXCEPT ![p] = [rec EXCEPT !.pc = pc]]

(***************************************************************************)
(* POST /upload and PDFProcessor.process_pdf                               *)
(***************************************************************************)
\* upload_pdf: the uploaded bytes are written to ./uploads/<filename>
UploadPdf(p, name, content) ==
    /\ CanStart(p)
    /\ files' = [files EXCEPT ![name] = content]
    /\ Goto(p, [IdleCall EXCEPT !.kind = "upload", !.file_name = name], "process")
    /\ n_started' = n_started + 1
    /\ UNCHANGED <<persisted, storage, objs, memory, generated, now, n_deleted,
                   ingested, n_returned>>

\* an index builder that accepts an empty chunk list
CanCreateFromNothing(text, provider_ok) == provider_ok

\* _create_knowledge_base: FAISS.from_texts raises on an empty chunk list and
\* when the embedding provider fails (provider_ok = FALSE)
CanCreateKnowledgeBase(text, provider_ok) == split_text(text) # <<>> /\ provider_ok

CreateKnowledgeBase(text) == KB(split_text(text))

\* process_pdf up to the built knowledge base: uuid4, extract, create
ProcessPdf(p, provider_ok) ==
    LET c == calls[p]
        u == uuid4(generated)
        f == files[c.file_name]
        text == ExtractedText(f.pages)
        c1 == [c EXCEPT !.chat_id = Str(u)]
    IN /\ c.kind = "upload" /\ c.pc = "process"
       /\ generated' = generated \cup {u}
       /\ IF ~f.readable
          THEN Raise(p, c1, "RuntimeError", "Failed to extract text from PDF")
          ELSE IF ~CanCreateKnowledgeBase(text, provider_ok)
          THEN Raise(p, [c1 EXCEPT !.text = text, !.n_build = 1],
                     "RuntimeError", "Failed to create knowledge base")
          ELSE Goto(p, [c1 EXCEPT !.text = text, !.n_build = 1,
                                  !.knowledge_base = CreateKnowledgeBase(text)],
                    "save")
       /\ UNCHANGED <<files, persisted, storage, objs, memory, now, n_started,
                      n_deleted, ingested, n_returned>>

\* what a failed save_local leaves on disk: the old artifact or a partial one
AfterFailedSave(old) == {old, Corrupt}

\* _save_knowledge_base(chat_id, knowledge_base) in process_pdf
SaveKnowledgeBase(p, disk_ok) ==
    LET c == calls[p]
        u == c.chat_id.chars
        c1 == [c EXCEPT !.n_save = @ + 1]
    IN /\ c.kind = "upload" /\ c.pc = "save"
       /\ IF disk_ok
          THEN /\ persisted' = [persisted EXCEPT ![EmbeddingPath(u)] = Saved(c.knowledge_base)]
               /\ Goto(p, c1, "register")
          ELSE /\ \E left \in AfterFailedSave(persisted[EmbeddingPath(u)]) :
                      persisted' = [persisted EXCEPT ![EmbeddingPath(u)] = left]
               /\ Raise(p, c1, "RuntimeError", "Failed to save knowledge base")
       /\ UNCHANGED <<files, storage, objs, memory, generated, now, n_started,
                      n_deleted, ingested, n_returned>>

\* chat = PDFChat(...); chat_storage[chat_id] = chat; return chat_id
RegisterChat(p) ==
    LET c == calls[p]
        u == c.chat_id.chars
        chat == NewRef
    IN /\ c.kind = "upload" /\ c.pc = "register"
       /\ objs' = [objs EXCEPT ![chat] = PDFChat(c.knowledge_base,
                                                   UploadPath(c.file_name),
                                                   c.file_name, now)]
       /\ storage' = ChatStorageSet(storage, u, chat)
       /\ now' = now + 2
       /\ Finish(p, c)
       /\ ingested' = [ingested EXCEPT
                          ![u] = [returned |-> TRUE, chunks |-> c.knowledge_base.chunks]]
       /\ UNCHANGED <<files, persisted, memory, generated, n_started, n_deleted,
                      n_returned>>

(***************************************************************************)
(* POST /chat/{chat_id} and ChatService.get_response                       *)
(***************************************************************************)
\* the validation of get_response, in the order of the code
ValidationError(chat_id, user_question) ==
    IF ~IsNonEmptyStr(chat_id) THEN "Invalid chat ID"
    ELSE IF ~IsNonEmptyStr(user_question) THEN "Invalid user question"
    ELSE ""

\* the chat endpoint without its `except ValueError` clause
ChatStatusUnmapped(exc) == IF exc = "none" THEN 200 ELSE 500

\* the status the chat endpoint answers with: a ValueError becomes a 404,
\* any other exception is not caught there and becomes a 500
ChatStatus(exc) ==
    IF exc = "none" THEN 200 ELSE IF exc = "ValueError" THEN 404 ELSE 500

\* the status the upload endpoint answers with
UploadStatus(exc) == IF exc = "none" THEN 200 ELSE 500

\* get_response up to the session lookup: validate, chat_storage.get
GetResponse(p, chat_id, user_question) ==
    LET c == [IdleCall EXCEPT !.kind = "chat", !.chat_id = chat_id,
                             !.question = user_question,
                             !.known = \E u \in Uuids :
                                          chat_id = Str(u) /\ storage[u] # 0]
        chat_data == ChatStorageGet(storage, chat_id.chars)
    IN /\ CanStart(p)
       /\ IF ValidationError(chat_id, user_question) # ""
          THEN Raise(p, c, "ValueError", ValidationError(chat_id, user_question))
          ELSE IF chat_data = 0
          THEN Raise(p, c, "ValueError", "Chat session not found")
          ELSE Goto(p, [c EXCEPT !.chat_data = chat_data,
                                 !.seen = objs[chat_data].messages], "load")
       /\ n_started' = n_started + 1
       /\ UNCHANGED <<files, persisted, storage, objs, memory, generated, now,
                      n_deleted, ingested, n_returned>>

\* a graph whose "model" node has an edge to itself
EdgeRepeatsModel(node) == "model"

\* _create_workflow: the graph enters at "search", goes on to "model" and
\* finishes there; "record" stands for the code after the stream
EntryPoint == "search"
Edge(node) == IF node = "search" THEN "model" ELSE "record"

\* an assignment that also empties the history of the session
SetKnowledgeBaseAndClear(chat, knowledge_base) ==
    [chat EXCEPT !.knowledge_base = knowledge_base, !.messages = <<>>]

\* an assignment that is left out
SetKnowledgeBaseNot(chat, knowledge_base) == chat

\* chat_data.knowledge_base = knowledge_base
SetKnowledgeBase(chat, knowledge_base) ==
    [chat EXCEPT !.knowledge_base = knowledge_base]

\* a stream that goes on from the checkpoint of the thread when there is one
ResumeCheckpoint(checkpoint, input) ==
    IF checkpoint = EmptyState THEN input ELSE checkpoint

\* app_instance.stream(initial_state, config): the state the run starts from
\* is the last checkpoint of the thread with the input written over it; a key
\* of ChatState has no reducer, so a key of the input replaces the value
ApplyInput(checkpoint, input) ==
    [messages |-> IF "messages" \in DOMAIN input THEN input.messages
                  ELSE checkpoint.messages,
     context |-> IF "context" \in DOMAIN input THEN input.context
                 ELSE checkpoint.context]

\* lines 140-160 of get_response, once the knowledge base is there: the
\* session's reference is set, the workflow is compiled and the stream starts
\* from the initial state, which the checkpointer records under the chat id
StartWorkflow(p, c, knowledge_base) ==
    LET initial_state == [messages |-> <<HumanMessage(c.question.chars)>>,
                          context |-> <<>>]
        state0 == ApplyInput(memory[c.chat_id.chars], initial_state)
    IN /\ objs' = [objs EXCEPT
                      ![c.chat_data] = SetKnowledgeBase(@, knowledge_base)]
       /\ memory' = [memory EXCEPT ![c.chat_id.chars] = state0]
       /\ Goto(p, [c EXCEPT !.knowledge_base = knowledge_base,
                            !.state = state0], EntryPoint)

\* _load_knowledge_base as called by get_or_create_knowledge_base
LoadKnowledgeBase(p, disk_ok) ==
    LET c == [calls[p] EXCEPT !.n_load = @ + 1]
        on_disk == persisted[EmbeddingPath(c.chat_id.chars)]
    IN /\ calls[p].kind = "chat" /\ calls[p].pc = "load"
       /\ IF on_disk.state = "absent"
          THEN /\ Goto(p, [c EXCEPT !.found_absent = TRUE], "recreate")
               /\ UNCHANGED <<objs, memory>>
          ELSE IF on_disk.state = "corrupt" \/ ~disk_ok
          THEN /\ Raise(p, c, "RuntimeError", "Failed to load knowledge base")
               /\ UNCHANGED <<objs, memory>>
          ELSE StartWorkflow(p, c, KB(on_disk.chunks))
       /\ UNCHANGED <<files, persisted, storage, generated, now, n_started,
                      n_deleted, ingested, n_returned>>

\* get_or_create_knowledge_base after a miss: the session is looked up again
\* and the index is built anew from the file at metadata["file_path"]
RecreateKnowledgeBase(p, provider_ok) ==
    LET c == calls[p]
        chat_data == ChatStorageGet(storage, c.chat_id.chars)
        name == objs[chat_data].metadata.file_name
        f == files[name]
        text == ExtractedText(f.pages)
    IN /\ c.kind = "chat" /\ c.pc = "recreate"
       /\ IF chat_data = 0 \/ objs[chat_data].metadata.file_path = <<>>
          THEN Raise(p, c, "ValueError", "Knowledge base not found")
          ELSE IF ~f.readable
          THEN Raise(p, c, "RuntimeError", "Failed to extract text from PDF")
          ELSE IF ~CanCreateKnowledgeBase(text, provider_ok)
          THEN Raise(p, [c EXCEPT !.text = text, !.n_build = @ + 1],
                     "RuntimeError", "Failed to create knowledge base")
          ELSE Goto(p, [c EXCEPT !.text = text, !.n_build = @ + 1,
                                 !.knowledge_base = CreateKnowledgeBase(text)],
                    "resave")
       /\ UNCHANGED <<files, persisted, storage, objs, memory, generated, now,
                      n_started, n_deleted, ingested, n_returned>>

\* _save_knowledge_base(chat_id, knowledge_base) after the rebuild
ResaveKnowledgeBase(p, disk_ok) ==
    LET c == [calls[p] EXCEPT !.n_save = @ + 1]
        u == c.chat_id.chars
    IN /\ calls[p].kind = "chat" /\ calls[p].pc = "resave"
       /\ IF disk_ok
          THEN /\ persisted' = [persisted EXCEPT ![EmbeddingPath(u)] = Saved(c.knowledge_base)]
               /\ StartWorkflow(p, c, c.knowledge_base)
          ELSE /\ \E left \in AfterFailedSave(persisted[EmbeddingPath(u)]) :
                      persisted' = [persisted EXCEPT ![EmbeddingPath(u)] = left]
               /\ Raise(p, c, "RuntimeError", "Failed to save knowledge base")
               /\ UNCHANGED <<objs, memory>>
       /\ UNCHANGED <<files, storage, generated, now, n_started, n_deleted,
                      ingested, n_returned>>

\* " ".join(doc.page_content for doc in docs)
Context(docs) == Join(<<" ">>, [i \in 1 .. Len(docs) |-> docs[i].page_content])

\* a search that lets the exception raised inside it through
SearchChunksErrorUnwrapped(inner) == inner

\* the `except Exception` of _search_chunks: whatever is raised inside, the
\* ValueError of its own two checks included, leaves it as a RuntimeError
SearchChunksError(inner) == "RuntimeError"

\* the two except clauses of get_response: a ValueError is raised again as it
\* is, any other exception leaves as a RuntimeError
GetResponseError(exc) == IF exc = "ValueError" THEN "ValueError" ELSE "RuntimeError"

\* what is raised inside _search_chunks, "none" when nothing is: the check for
\* similarity_search, the search itself, the check for page_content
SearchChunksRaises(knowledge_base, docs, provider_ok) ==
    IF ~knowledge_base.valid THEN "ValueError"
    ELSE IF ~provider_ok THEN "Exception"
    ELSE IF \E i \in 1 .. Len(docs) : ~docs[i].has_page_content THEN "ValueError"
    ELSE "none"

\* the "search" node: _search_chunks(state, knowledge_base)
SearchChunks(p, provider_ok) ==
    LET c == calls[p]
        user_question == c.state.messages[Len(c.state.messages)].content
        docs == similarity_search(c.knowledge_base, user_question)
        c1 == [c EXCEPT !.n_search = @ + 1, !.query = user_question,
                        !.searched = c.knowledge_base]
        state1 == [messages |-> c.state.messages, context |-> Context(docs)]
    IN /\ c.kind = "chat" /\ c.pc = "search"
       /\ IF SearchChunksRaises(c.knowledge_base, docs, provider_ok) # "none"
          THEN /\ Raise(p, c1,
                        GetResponseError(SearchChunksError(
                            SearchChunksRaises(c.knowledge_base, docs, provider_ok))),
                        "Failed to search document chunks")
               /\ UNCHANGED memory
          ELSE /\ memory' = [memory EXCEPT ![c.chat_id.chars] = state1]
               /\ Goto(p, [c1 EXCEPT !.state = state1], Edge("search"))
       /\ UNCHANGED <<files, persisted, storage, objs, generated, now, n_started,
                      n_deleted, ingested, n_returned>>

\* the "model" node: _call_model(state); answer = "" stands for a failed call
CallModel(p, model_ok, answer) ==
    LET c == calls[p]
        user_question == c.state.messages[Len(c.state.messages)].content
        combined_input == Prompt(c.state.context, user_question)
        c1 == [c EXCEPT !.n_invoke = @ + 1, !.prompt = combined_input]
        state1 == [messages |-> Append(c.state.messages, AIMessage(answer)),
                   context |-> c.state.context]
    IN /\ c.kind = "chat" /\ c.pc = "model"
       /\ IF ~model_ok
          THEN /\ Raise(p, c1, "RuntimeError", "Failed to generate model response")
               /\ UNCHANGED memory
          ELSE /\ memory' = [memory EXCEPT ![c.chat_id.chars] = state1]
               /\ Goto(p, [c1 EXCEPT !.state = state1, !.model_out = answer], Edge("model"))
       /\ UNCHANGED <<files, persisted, storage, objs, generated, now, n_started,
                      n_deleted, ingested, n_returned>>

\* the content of the first message instead of the last
AiResponseOfFirst(last_event) == last_event.messages[1].content

\* last_event["messages"][-1].content
AiResponse(last_event) == last_event.messages[Len(last_event.messages)].content

\* the entry appended to chat_data.messages
Exchange(user_question, ai_response, timestamp) ==
    [user |-> user_question, ai |-> ai_response, timestamp |-> timestamp]

\* an append to the copy of the history read at the lookup
AppendToSnapshot(messages, seen, exchange) == Append(seen, exchange)

\* an insertion at the head of the history
PrependExchange(messages, seen, exchange) == <<exchange>> \o messages

\* chat_data.messages.append(...): the list of the session object itself is
\* extended, whatever it held when the session was looked up (seen)
AppendExchange(messages, seen, exchange) == Append(messages, exchange)

\* lines 162-180: extract the answer, append to the history, update, return
RecordExchange(p) ==
    LET c == calls[p]
        ai_response == AiResponse(c.state)
        exchange == Exchange(c.question.chars, ai_response, now)
        messages == AppendExchange(objs[c.chat_data].messages, c.seen, exchange)
    IN /\ c.kind = "chat" /\ c.pc = "record"
       /\ objs' = [objs EXCEPT ![c.chat_data].messages = messages]
       /\ storage' = ChatStorageUpdate(storage, c.chat_id.chars, c.chat_data)
       /\ now' = now + 1
       /\ Finish(p, [c EXCEPT !.response = ai_response, !.chat_history = messages])
       /\ n_returned' = [n_returned EXCEPT ![c.chat_data] = @ + 1]
       /\ UNCHANGED <<files, persisted, memory, generated, n_started, n_deleted,
                      ingested>>

(***************************************************************************)
(* The environment: an index file is removed from storage/embeddings       *)
(***************************************************************************)
DeleteIndex(path) ==
    /\ n_deleted < MaxDeletes
    /\ persisted[path].state # "absent"
    /\ persisted' = [persisted EXCEPT ![path] = Absent]
    /\ n_deleted' = n_deleted + 1
    /\ UNCHANGED <<files, storage, objs, memory, generated, now, calls, n_started,
                   ingested, n_returned>>

Next ==
    \/ \E p \in Workers, name \in FileNames, content \in Uploads :
          UploadPdf(p, name, content)
    \/ \E p \in Workers, provider_ok \in BOOLEAN : ProcessPdf(p, provider_ok)
    \/ \E p \in Workers, disk_ok \in BOOLEAN : SaveKnowledgeBase(p, disk_ok)
    \/ \E p \in Workers : RegisterChat(p)
    \/ \E p \in Workers, chat_id \in ChatIdInputs, user_question \in QuestionInputs :
          GetResponse(p, chat_id, user_question)
    \/ \E p \in Workers, disk_ok \in BOOLEAN : LoadKnowledgeBase(p, disk_ok)
    \/ \E p \in Workers, provider_ok \in BOOLEAN : RecreateKnowledgeBase(p, provider_ok)
    \/ \E p \in Workers, disk_ok \in BOOLEAN : ResaveKnowledgeBase(p, disk_ok)
    \/ \E p \in Workers, provider_ok \in BOOLEAN : SearchChunks(p, provider_ok)
    \/ \E p \in Workers, model_ok \in BOOLEAN, answer \in Answers :
          CallModel(p, model_ok, answer)
    \/ \E p \in Workers : RecordExchange(p)
    \/ \E path \in Paths : DeleteIndex(path)

Spec == Init /\ [][Next]_vars

\* The requests as the endpoints run them: both are coroutines of one event
\* loop that call the services without awaiting, so a request is handled to
\* its end before the next one is taken.
Alone(p) == \A q \in Workers \ {p} : Free(q)

NextSerial ==
    \/ \E p \in Workers, name \in FileNames, content \in Uploads :
          Alone(p) /\ UploadPdf(p, name, content)
    \/ \E p \in Workers, provider_ok \in BOOLEAN : Alone(p) /\ ProcessPdf(p, provider_ok)
    \/ \E p \in Workers, disk_ok \in BOOLEAN : Alone(p) /\ SaveKnowledgeBase(p, disk_ok)
    \/ \E p \in Workers : Alone(p) /\ RegisterChat(p)
    \/ \E p \in Workers, chat_id \in ChatIdInputs, user_question \in QuestionInputs :
          Alone(p) /\ GetResponse(p, chat_id, user_question)
    \/ \E p \in Workers, disk_ok \in BOOLEAN : Alone(p) /\ LoadKnowledgeBase(p, disk_ok)
    \/ \E p \in Workers, provider_ok \in BOOLEAN :
          Alone(p) /\ RecreateKnowledgeBase(p, provider_ok)
    \/ \E p \in Workers, disk_ok \in BOOLEAN : Alone(p) /\ ResaveKnowledgeBase(p, disk_ok)
    \/ \E p \in Workers, provider_ok \in BOOLEAN : Alone(p) /\ SearchChunks(p, provider_ok)
    \/ \E p \in Workers, model_ok \in BOOLEAN, answer \in Answers :
          Alone(p) /\ CallModel(p, model_ok, answer)
    \/ \E p \in Workers : Alone(p) /\ RecordExchange(p)
    \/ \E path \in Paths : DeleteIndex(path)

SpecSerial == Init /\ [][NextSerial]_vars

(***************************************************************************)
(* The ingestion of one uploaded PDF whose text is made of pieces of x's   *)
(* between newlines, the pieces being of the lengths at which split_text   *)
(* changes what it does.                                                   *)
(***************************************************************************)
\* Number of pieces of a text.
MaxPieces == 2

PieceLens == {0, 1, ChunkOverlap, ChunkSize - 1, ChunkSize, ChunkSize + 1}
Piece(n) == [i \in 1 .. n |-> "x"]
Pieces == { Piece(n) : n \in PieceLens }
SplitTexts ==
    UNION { { Join(Separator, pieces) : pieces \in [1 .. k -> Pieces] } :
            k \in 1 .. MaxPieces }

\* the state after upload_pdf has written a first upload to ./uploads/f.pdf
InitSplit ==
    /\ \E text \in SplitTexts :
          files = [n \in FileNames |-> IF n = "f.pdf" THEN Pdf(<<text>>) ELSE NoFile]
    /\ persisted = [path \in Paths |-> Absent]
    /\ storage = [u \in Uuids |-> 0]
    /\ objs = [r \in Refs |-> NoObject]
    /\ memory = [u \in Uuids |-> EmptyState]
    /\ generated = {}
    /\ now = 0
    /\ calls = [p \in Workers |->
                  IF p = 1
                  THEN [IdleCall EXCEPT !.kind = "upload", !.file_name = "f.pdf",
                                        !.pc = "process"]
                  ELSE IdleCall]
    /\ n_started = 1
    /\ n_deleted = 0
    /\ ingested = [u \in Uuids |-> [returned |-> FALSE, chunks |-> <<>>]]
    /\ n_returned = [r \in Refs |-> 0]

NextSplit ==
    \/ \E p \in Workers, provider_ok \in BOOLEAN : ProcessPdf(p, provider_ok)
    \/ \E p \in Workers, disk_ok \in BOOLEAN : SaveKnowledgeBase(p, disk_ok)
    \/ \E p \in Workers : RegisterChat(p)

SpecSplit == InitSplit /\ [][NextSplit]_vars

(***************************************************************************)
(* The workflow of two chat calls on one registered session, from the      *)
(* "search" node on, for the objects _search_chunks is written to cope     *)
(* with: indices as the store returns them, an object without a            *)
(* similarity_search, and an index whose results have no page_content.     *)
(***************************************************************************)
SearchKBs ==
    { KB(<< <<"x">> >>),
      KB(<< <<"v">>, <<"w">>, <<"x">>, <<"y">>, <<"z">> >>),
      NoKB,
      [KB(<< <<"x">> >>) EXCEPT !.docs_ok = FALSE] }

SearchHistories == { <<>>, << Exchange(<<"q", " ">>, <<"A">>, 2) >> }

\* a chat call on session "a" that has resolved knowledge_base and is about
\* to run the "search" node
Searching(knowledge_base, history) ==
    [IdleCall EXCEPT !.kind = "chat", !.pc = EntryPoint,
                     !.chat_id = Str(<<"a">>), !.question = Str(<<"q", " ">>),
                     !.chat_data = 1, !.known = TRUE, !.seen = history,
                     !.n_load = 1, !.knowledge_base = knowledge_base,
                     !.state = [messages |-> <<HumanMessage(<<"q", " ">>)>>,
                                context |-> <<>>]]

InitSearch ==
    \E history \in SearchHistories :
        /\ files = [n \in FileNames |->
                      IF n = "f.pdf" THEN Pdf(<< <<"x">> >>) ELSE NoFile]
        /\ persisted = [path \in Paths |->
                          IF path = EmbeddingPath(<<"a">>)
                          THEN Saved(KB(<< <<"x">> >>)) ELSE Absent]
        /\ storage = [u \in Uuids |-> IF u = <<"a">> THEN 1 ELSE 0]
        /\ \E kb \in [Workers -> SearchKBs] :
              /\ calls = [p \in Workers |-> Searching(kb[p], history)]
              /\ objs = [r \in Refs |->
                           IF r = 1
                           THEN [SetKnowledgeBase(
                                    PDFChat(KB(<< <<"x">> >>), UploadPath("f.pdf"),
                                            "f.pdf", 0),
                                    kb[MaxInFlight])
                                 EXCEPT !.messages = history]
                           ELSE NoObject]
        /\ memory = [u \in Uuids |->
                       IF u = <<"a">>
                       THEN [messages |-> <<HumanMessage(<<"q", " ">>)>>,
                             context |-> <<>>]
                       ELSE EmptyState]
        /\ generated = { <<"a">> }
        /\ now = 2 + Len(history)
        /\ n_started = 1 + Len(history) + MaxInFlight
        /\ n_deleted = 0
        /\ ingested = [u \in Uuids |->
                         IF u = <<"a">>
                         THEN [returned |-> TRUE, chunks |-> << <<"x">> >>]
                         ELSE [returned |-> FALSE, chunks |-> <<>>]]
        /\ n_returned = [r \in Refs |-> IF r = 1 THEN Len(history) ELSE 0]

NextSearch ==
    \/ \E p \in Workers, provider_ok \in BOOLEAN : SearchChunks(p, provider_ok)
    \/ \E p \in Workers, model_ok \in BOOLEAN, answer \in Answers :
          CallModel(p, model_ok, answer)
    \/ \E p \in Workers : RecordExchange(p)

SpecSearch == InitSearch /\ [][NextSearch]_vars

(***************************************************************************)
(* Properties                                                              *)
(***************************************************************************)
Range(seq) == { seq[i] : i \in 1 .. Len(seq) }

IsPrefix(s, t) == Len(s) <= Len(t) /\ SubSeq(t, 1, Len(s)) = s

\* request p is a chat call that returned {response, chat_history}
ChatReturned(p) ==
    calls[p].kind = "chat" /\ calls[p].pc = "done" /\ calls[p].exc = "none"

\* request p is an upload whose process_pdf returned a chat id
UploadReturned(p) ==
    calls[p].kind = "upload" /\ calls[p].pc = "done" /\ calls[p].exc = "none"

\* request p has loaded, built or saved no index, searched nothing and
\* invoked no model
NoWork(c) ==
    /\ c.n_load = 0 /\ c.n_build = 0 /\ c.n_save = 0
    /\ c.n_search = 0 /\ c.n_invoke = 0

\* v is not a string, or is empty or made of whitespace only
Blank(v) == ~v.isstr \/ \A i \in 1 .. Len(v.chars) : v.chars[i] \in Whitespace

\* the step in which worker p takes a chat call
StartsChat(p) ==
    CanStart(p) /\ n_started' = n_started + 1 /\ calls'[p].kind = "chat"

\* C1: a chat call whose chat id is a non-empty string that the registry does
\* not hold ends, in the step that looks the id up, with a ValueError, which
\* the endpoint answers with 404; no index is loaded, built or saved, nothing
\* is searched, no model is invoked, and registry, sessions, indices and
\* checkpoints stay as they were.
C1_UnknownSessionIsNotFound ==
    [][\A p \in Workers :
          (/\ StartsChat(p)
           /\ ~Blank(calls'[p].chat_id)
           /\ \A u \in Uuids : calls'[p].chat_id.chars = u => storage[u] = 0)
          => /\ calls'[p].pc = "done"
             /\ calls'[p].exc = "ValueError"
             /\ ChatStatus(calls'[p].exc) = 404
             /\ NoWork(calls'[p])
             /\ UNCHANGED <<storage, objs, persisted, memory, files>>]_vars

\* a valid chat id and question were refused as not found while another
\* session was registered
C1_Witness ==
    \E p \in Workers :
        /\ calls[p].kind = "chat" /\ calls[p].pc = "done"
        /\ ~Blank(calls[p].chat_id) /\ ~Blank(calls[p].question)
        /\ calls[p].chat_data = 0
        /\ ~calls[p].known
        /\ calls[p].error = "Chat session not found"
        /\ ChatStatus(calls[p].exc) = 404
        /\ \E u \in Uuids : storage[u] # 0

\* the step in which chat call p returns
ChatReturns(p) ==
    /\ calls[p].kind = "chat" /\ calls[p].pc # "done"
    /\ calls'[p].pc = "done" /\ calls'[p].exc = "none"

\* C2: the history of a session has as many entries as chat calls returned on
\* it, and a step changes a history only by putting the exchange of the chat
\* call that returns in this step behind the entries already there.
C2_HistoryAppendOnly ==
    /\ [](\A r \in Refs : Len(objs[r].messages) = n_returned[r])
    /\ [][\A r \in Refs :
             \/ objs'[r].messages = objs[r].messages
             \/ \E p \in Workers :
                   /\ ChatReturns(p) /\ calls[p].chat_data = r
                   /\ Len(objs'[r].messages) = Len(objs[r].messages) + 1
                   /\ IsPrefix(objs[r].messages, objs'[r].messages)
                   /\ objs'[r].messages[Len(objs'[r].messages)].user
                         = calls[p].question.chars]_vars

\* two chat calls returned on one session and its history has two entries
C2_Witness ==
    \E r \in Refs :
        /\ n_returned[r] = 2
        /\ Len(objs[r].messages) = 2
        /\ objs[r].messages[1].timestamp < objs[r].messages[2].timestamp

\* C3: the registry holds a chat id exactly when an upload returned it, and
\* the registry changes only in the step in which an upload returns, by the
\* entry for the id that upload generated: an upload that fails at the
\* extraction, the build or the save leaves the registry as it was.
C3_RegisteredIffIngested ==
    /\ [](\A u \in Uuids :
             /\ storage[u] # 0 <=> ingested[u].returned
             /\ \A p \in Workers :
                   (calls[p].kind = "upload" /\ calls[p].chat_id = Str(u))
                   => (storage[u] # 0 <=> UploadReturned(p)))
    /\ [][storage' # storage
          => \E p \in Workers :
                /\ calls[p].kind = "upload" /\ calls[p].pc # "done"
                /\ UploadReturned(p)'
                /\ storage[calls[p].chat_id.chars] = 0
                /\ \E r \in Refs :
                      /\ ~objs[r].allocated /\ objs'[r].allocated
                      /\ storage' = [storage EXCEPT ![calls[p].chat_id.chars] = r]]_vars

\* one upload is registered, and another failed at the save and is not
C3_Witness ==
    /\ \E p \in Workers : UploadReturned(p) /\ storage[calls[p].chat_id.chars] # 0
    /\ \E p \in Workers :
          /\ calls[p].kind = "upload" /\ calls[p].pc = "done"
          /\ calls[p].error = "Failed to save knowledge base"
          /\ persisted[EmbeddingPath(calls[p].chat_id.chars)] = Corrupt
          /\ storage[calls[p].chat_id.chars] = 0

\* request p is an upload that has extracted the text of its file
Extracted(p) == calls[p].kind = "upload" /\ calls[p].n_build = 1

\* C4: an upload whose PDF yields the empty text ends with a RuntimeError
\* (status 500) when the index is to be built; its chat id is not registered
\* and no index is on disk under it.
C4_EmptyTextFails ==
    \A p \in Workers :
        (Extracted(p) /\ calls[p].text = <<>>)
        => /\ calls[p].pc = "done"
           /\ calls[p].exc = "RuntimeError"
           /\ UploadStatus(calls[p].exc) = 500
           /\ calls[p].n_save = 0
           /\ storage[calls[p].chat_id.chars] = 0
           /\ persisted[EmbeddingPath(calls[p].chat_id.chars)] = Absent

\* an upload of a PDF without text has failed
C4_Witness ==
    \E p \in Workers :
        /\ Extracted(p) /\ calls[p].text = <<>>
        /\ files[calls[p].file_name].readable
        /\ calls[p].pc = "done" /\ calls[p].exc = "RuntimeError"

\* the chunks of the index built when the session of chat call p was ingested
IngestedChunks(p) == ingested[calls[p].chat_id.chars].chunks

\* chat call p found no index on disk, rebuilt and saved one, and returned
RebuiltAndReturned(p) == ChatReturned(p) /\ calls[p].found_absent

\* C5: a chat call that finds no index on disk for its registered session,
\* and in which neither the extraction, the build, the save, the search nor the
\* model fails, has built one index from the file at metadata.file_path, saved
\* it under its chat id and searched it, and that index has the chunks of the
\* index built at ingestion.
C5_RebuildSameChunks ==
    \A p \in Workers :
        RebuiltAndReturned(p)
        => /\ calls[p].n_build = 1 /\ calls[p].n_save = 1
           /\ calls[p].searched = calls[p].knowledge_base
           /\ calls[p].searched.chunks = IngestedChunks(p)

\* C6: a chat call is answered with 404 only when its session id is unknown:
\* its inputs passed the validation and the lookup found no session.
C6_Only404IsUnknownSession ==
    \A p \in Workers :
        (calls[p].kind = "chat" /\ calls[p].pc = "done"
         /\ ChatStatus(calls[p].exc) = 404)
        => /\ ~Blank(calls[p].chat_id) /\ ~Blank(calls[p].question)
           /\ calls[p].chat_data = 0

\* C7: a chat call whose chat id or question is blank ends in its first step
\* with the ValueError of the validation: the session is not looked up, no index
\* is loaded, built or saved, nothing is searched, no model is invoked, and
\* registry, sessions, indices, checkpoints and files stay as they were,
\* whether the chat id is registered or not.
C7_ValidationFirst ==
    [][\A p \in Workers :
          (/\ StartsChat(p)
           /\ Blank(calls'[p].chat_id) \/ Blank(calls'[p].question))
          => /\ calls'[p].pc = "done"
             /\ calls'[p].exc = "ValueError"
             /\ calls'[p].error = (IF Blank(calls'[p].chat_id)
                                   THEN "Invalid chat ID"
                                   ELSE "Invalid user question")
             /\ calls'[p].chat_data = 0
             /\ NoWork(calls'[p])
             /\ UNCHANGED <<storage, objs, persisted, memory, files>>]_vars

\* a whitespace-only question was refused on a registered session
C7_Witness ==
    \E p \in Workers :
        /\ calls[p].kind = "chat" /\ calls[p].pc = "done"
        /\ ~Blank(calls[p].chat_id)
        /\ calls[p].question = Str(<<" ">>)
        /\ calls[p].known
        /\ calls[p].exc = "ValueError"
        /\ calls[p].chat_data = 0

\* the exchange chat call p returned as the last entry of the history
OwnExchange(p) == calls[p].chat_history[Len(calls[p].chat_history)]

\* C8 as claimed: when two chat calls that read the same history at the lookup
\* have both returned, the last write has won: the history of the session is
\* the history they read plus the exchange of one of them.
C8_LastWriteWins ==
    \A p, q \in Workers :
        (/\ p # q /\ ChatReturned(p) /\ ChatReturned(q)
         /\ calls[p].chat_data = calls[q].chat_data
         /\ calls[p].seen = calls[q].seen)
        => objs[calls[p].chat_data].messages
              \in { Append(calls[p].seen, OwnExchange(p)),
                    Append(calls[q].seen, OwnExchange(q)) }

\* C8: the chat calls on one session are not serialized, yet none of their
\* exchanges is lost: the exchange of every chat call that returned is in the
\* history of its session, also when another call on the session read the
\* same history at its lookup.
C8_NoLostUpdate ==
    \A p \in Workers :
        ChatReturned(p)
        => /\ OwnExchange(p) \in Range(objs[calls[p].chat_data].messages)
           /\ \A q \in Workers \ {p} :
                 (ChatReturned(q) /\ calls[q].chat_data = calls[p].chat_data)
                 => OwnExchange(q) # OwnExchange(p)

\* two chat calls that read the same empty history at the lookup have both
\* returned, and both exchanges are in the history
C8_Witness ==
    \E p, q \in Workers :
        /\ p # q /\ ChatReturned(p) /\ ChatReturned(q)
        /\ calls[p].chat_data = calls[q].chat_data
        /\ calls[p].seen = <<>> /\ calls[q].seen = <<>>
        /\ objs[calls[p].chat_data].messages = <<OwnExchange(p), OwnExchange(q)>>

\* C9: a chat call searches at most once and invokes the model at most once,
\* never the model before the search; the prompt of the one invocation holds
\* the context joined from the result of the search; a call that returned has
\* done both once, and a call that failed in the search has invoked no model.
C9_OneSearchOneInvocation ==
    \A p \in Workers :
        LET c == calls[p] IN
        /\ c.n_invoke <= c.n_search /\ c.n_search <= 1
        /\ c.n_invoke = 1
           => c.prompt = Prompt(Context(similarity_search(c.searched, c.query)),
                                c.question.chars)
        /\ ChatReturned(p) => (c.n_search = 1 /\ c.n_invoke = 1)
        /\ c.error = "Failed to search document chunks"
           => (c.pc = "done" /\ c.n_search = 1 /\ c.n_invoke = 0)

\* one chat call returned and another failed in its search
C9_Witness ==
    /\ \E p \in Workers : ChatReturned(p) /\ calls[p].n_invoke = 1
    /\ \E p \in Workers :
          /\ calls[p].error = "Failed to search document chunks"
          /\ calls[p].n_search = 1 /\ calls[p].n_invoke = 0

\* C10: the step in which a chat call returns appends one entry to the history
\* of its session, made of the question as it was sent, the output of the
\* call's model invocation and the time; the call returns that output as the
\* response and the history as it is after the append, the entries before the
\* new one being the history as it was before the step.
C10_ReturnsAnswerAndHistory ==
    [][\A p \in Workers :
          ChatReturns(p)
          => LET r == calls[p].chat_data
                 h == calls'[p].chat_history
             IN /\ calls'[p].response = calls[p].model_out
                /\ calls[p].n_invoke = 1
                /\ h = objs'[r].messages
                /\ h = Append(objs[r].messages,
                              [user |-> calls[p].question.chars,
                               ai |-> calls[p].model_out,
                               timestamp |-> now])]_vars

\* a chat call returned a history of two entries whose last one holds its
\* question, with the trailing blank, and its answer
C10_Witness ==
    \E p \in Workers :
        /\ ChatReturned(p)
        /\ Len(calls[p].chat_history) = 2
        /\ OwnExchange(p).user = <<"q", " ">>
        /\ OwnExchange(p).ai = calls[p].response
        /\ calls[p].chat_history[1].ai # calls[p].response

\* C11: the query of a chat call's search is the question of that call, and
\* the prompt of its model invocation is made of the question and of the
\* context joined from the search of the resolved index for that question;
\* neither depends on the history of the session or on the checkpoint of the
\* thread, so two calls with the same question on the same index issue the
\* same query and the same prompt.
C11_QueryAndPromptFromQuestionOnly ==
    /\ \A p \in Workers :
          LET c == calls[p] IN
          /\ c.n_search = 1 => c.query = c.question.chars
          /\ c.n_invoke = 1
             => c.prompt = Prompt(Context(similarity_search(c.searched,
                                                            c.question.chars)),
                                  c.question.chars)
    /\ \A p, q \in Workers :
          (/\ calls[p].n_invoke = 1 /\ calls[q].n_invoke = 1
           /\ calls[p].question = calls[q].question
           /\ calls[p].searched = calls[q].searched)
          => /\ calls[p].query = calls[q].query
             /\ calls[p].prompt = calls[q].prompt

\* a chat call on a session with a history, whose thread holds the checkpoint
\* of the earlier call, has asked the model about its own question
C11_Witness ==
    \E p \in Workers :
        /\ calls[p].kind = "chat" /\ calls[p].n_invoke = 1
        /\ calls[p].seen # <<>>
        /\ calls[p].query = calls[p].question.chars
        /\ calls[p].state.messages[1] = HumanMessage(calls[p].question.chars)

\* the step is one of the upload that worker p handles
UploadSteps(p) ==
    calls[p].kind = "upload" /\ calls[p].pc # "done" /\ calls'[p] # calls[p]

\* C12: the registry holds as many chat ids as ingestions succeeded, each with
\* a session object of its own; the chat id of an upload is not registered
\* before the upload registers it, and no step of an upload changes the
\* object, the registry entry or the index on disk of a registered session.
C12_SessionIdNeverReused ==
    /\ [](/\ Cardinality({ u \in Uuids : storage[u] # 0 })
               = Cardinality({ r \in Refs : objs[r].allocated })
          /\ \A u, v \in Uuids :
                (storage[u] # 0 /\ storage[u] = storage[v]) => u = v)
    /\ [][\A p \in Workers :
             UploadSteps(p)
             => /\ calls'[p].chat_id.isstr => storage[calls'[p].chat_id.chars] = 0
                /\ \A r \in Refs : objs[r].allocated => objs'[r] = objs[r]
                /\ \A v \in Uuids :
                      storage[v] # 0
                      => /\ storage'[v] = storage[v]
                         /\ persisted'[EmbeddingPath(v)] = persisted[EmbeddingPath(v)]]_vars

\* the same file path was ingested twice: two sessions are registered, and
\* the first has kept the exchange it had before the second ingestion
C12_Witness ==
    \E u, v \in Uuids :
        /\ u # v /\ storage[u] # 0 /\ storage[v] # 0
        /\ objs[storage[u]].metadata.file_path = objs[storage[v]].metadata.file_path
        /\ Len(objs[storage[u]].messages) = 1
        /\ objs[storage[u]].messages[1].timestamp < objs[storage[v]].created_at
        /\ persisted[EmbeddingPath(u)].state = "ok"

\* the step is a save of an index by worker p
SaveStep(p) ==
    /\ calls[p].pc \in {"save", "resave"}
    /\ calls'[p].n_save = calls[p].n_save + 1

\* the step is a load of an index by worker p
LoadStep(p) == calls[p].pc = "load" /\ calls'[p].n_load = calls[p].n_load + 1

\* C13: a save that succeeds puts the index under the path of its chat id,
\* whatever was there; a save leaves what is on disk for every other chat id
\* as it is; the disk changes by nothing but a save or a deletion; a load
\* changes nothing on disk, reports absence without an error when nothing is
\* under the path of its chat id, and otherwise returns, if it does not fail,
\* the index that is there.
C13_StoreRoundTrip ==
    [][/\ \A p \in Workers :
             LET u == calls[p].chat_id.chars IN
             /\ (SaveStep(p) /\ calls'[p].exc = "none")
                => /\ persisted'[EmbeddingPath(u)].state = "ok"
                   /\ persisted'[EmbeddingPath(u)].chunks
                         = calls[p].knowledge_base.chunks
             /\ SaveStep(p)
                => \A v \in Uuids \ {u} :
                      persisted'[EmbeddingPath(v)] = persisted[EmbeddingPath(v)]
             /\ LoadStep(p)
                => /\ persisted' = persisted
                   /\ persisted[EmbeddingPath(u)].state = "absent"
                      => /\ calls'[p].found_absent
                         /\ calls'[p].exc = "none" /\ calls'[p].pc # "done"
                   /\ (persisted[EmbeddingPath(u)].state = "ok"
                       /\ calls'[p].exc = "none")
                      => /\ ~calls'[p].found_absent
                         /\ calls'[p].knowledge_base.valid
                         /\ calls'[p].knowledge_base.chunks
                               = persisted[EmbeddingPath(u)].chunks
       /\ persisted' # persisted
          => \/ \E p \in Workers : SaveStep(p)
             \/ n_deleted' = n_deleted + 1]_vars

\* the index of a session was deleted; one chat call found it absent, rebuilt
\* and saved it, and another chat call on the session loaded what was saved
C13_Witness ==
    \E p, q \in Workers :
        /\ p # q /\ calls[p].kind = "chat" /\ calls[q].kind = "chat"
        /\ calls[p].chat_id = calls[q].chat_id
        /\ n_deleted = 1
        /\ calls[p].found_absent /\ calls[p].n_save = 1 /\ calls[p].exc = "none"
        /\ calls[q].n_load = 1 /\ ~calls[q].found_absent /\ calls[q].exc = "none"
        /\ calls[q].knowledge_base.valid
        /\ calls[q].knowledge_base = calls[p].knowledge_base
        /\ persisted[EmbeddingPath(calls[q].chat_id.chars)]
              = Saved(calls[q].knowledge_base)

\* C14: every chunk of the index that an ingestion builds with split_text has
\* at most chunk_size characters, also when the text has a piece without a
\* newline that is longer than chunk_size.
C14_ChunksWithinSize ==
    \A p \in Workers :
        \A i \in 1 .. Len(calls[p].knowledge_base.chunks) :
            Len(calls[p].knowledge_base.chunks[i]) <= ChunkSize

\* the step is one of a chat call that worker p takes or handles
ChatSteps(p) == calls'[p].kind = "chat" /\ calls'[p] # calls[p]

\* C15: a step of a chat call other than the one in which it returns, and so
\* every step of a chat call that fails, at the lookup, the load, the rebuild,
\* the save, the search or the model, changes no history and no entry of the
\* registry; every entry of a history holds an answer of the model.
C15_FailedCallLeavesHistory ==
    /\ [](\A r \in Refs : \A i \in 1 .. Len(objs[r].messages) :
             objs[r].messages[i].ai \in Answers)
    /\ [][\A p \in Workers :
             (ChatSteps(p) /\ ~(calls'[p].pc = "done" /\ calls'[p].exc = "none"))
             => /\ \A r \in Refs : objs'[r].messages = objs[r].messages
                /\ storage' = storage]_vars

\* a chat call on a session with a history failed at the model; the history
\* is as the call found it and the session is registered
C15_Witness ==
    \E p \in Workers :
        /\ calls[p].kind = "chat" /\ calls[p].pc = "done"
        /\ calls[p].error = "Failed to generate model response"
        /\ calls[p].seen # <<>>
        /\ objs[calls[p].chat_data].messages = calls[p].seen
        /\ storage[calls[p].chat_id.chars] = calls[p].chat_data

\* C16: a registered session has a non-empty metadata.file_path and, as long
\* as no index was deleted from outside, an index on disk under its chat id,
\* which is there already in the step that registers the session; a chat call
\* loads an index only under a chat id that is registered in that step.
C16_PersistBeforeRegister ==
    /\ [](\A u \in Uuids :
             storage[u] # 0
             => /\ objs[storage[u]].metadata.file_path # <<>>
                /\ n_deleted = 0 => persisted[EmbeddingPath(u)].state = "ok")
    /\ [][/\ \A u \in Uuids :
                (storage[u] = 0 /\ storage'[u] # 0)
                => /\ \E p \in Workers :
                         /\ calls[p].kind = "upload" /\ calls[p].chat_id = Str(u)
                         /\ calls[p].n_save = 1 /\ UploadReturned(p)'
                   /\ n_deleted = 0
                      => /\ persisted[EmbeddingPath(u)].state = "ok"
                         /\ persisted[EmbeddingPath(u)].chunks
                               = objs'[storage'[u]].knowledge_base.chunks
          /\ \A p \in Workers :
                LoadStep(p)
                => /\ storage[calls[p].chat_id.chars] # 0
                   /\ storage[calls[p].chat_id.chars] = calls[p].chat_data]_vars

\* with nothing deleted, a chat call has loaded the index of its registered
\* session, the one saved at the ingestion
C16_Witness ==
    \E p \in Workers :
        /\ calls[p].kind = "chat" /\ calls[p].n_load = 1 /\ calls[p].exc = "none"
        /\ calls[p].pc # "load" /\ ~calls[p].found_absent
        /\ n_deleted = 0
        /\ storage[calls[p].chat_id.chars] # 0
        /\ persisted[EmbeddingPath(calls[p].chat_id.chars)].state = "ok"
        /\ calls[p].knowledge_base.chunks = IngestedChunks(p)

\* C17: with the requests handled one after the other, a chat call that
\* searches has asked the store once in this call, by a load and, on a miss,
\* a rebuild and a save, and searches the index it got from it; the step that
\* resolves the index puts it in the handle of the session, whatever the
\* handle held; after a chat call that returned, the handle of its session
\* is the index the call resolved and searched.
C17_HandleRefreshedFromStore ==
    /\ [](\A p \in Workers :
             LET c == calls[p] IN
             /\ (c.kind = "chat" /\ c.n_search = 1)
                => /\ c.n_load = 1
                   /\ c.searched = c.knowledge_base
                   /\ c.found_absent <=> (c.n_build = 1 /\ c.n_save = 1)
                   /\ ~c.found_absent <=> (c.n_build = 0 /\ c.n_save = 0)
             /\ ChatReturned(p)
                => objs[c.chat_data].knowledge_base = c.searched)
    /\ [][\A p \in Workers :
             (calls[p].kind = "chat" /\ calls[p].pc \in {"load", "resave"}
              /\ calls'[p].pc = EntryPoint)
             => LET on_disk == persisted'[EmbeddingPath(calls[p].chat_id.chars)]
                IN /\ on_disk.state = "ok"
                   /\ calls'[p].knowledge_base.chunks = on_disk.chunks
                   /\ objs'[calls[p].chat_data].knowledge_base
                         = calls'[p].knowledge_base]_vars

\* a chat call returned after it rebuilt an index that differs from the one
\* the handle of its session held since the ingestion, and searched the
\* rebuilt one, which the handle now holds
C17_Witness ==
    \E p \in Workers :
        /\ RebuiltAndReturned(p)
        /\ calls[p].searched.chunks # IngestedChunks(p)
        /\ calls[p].searched = calls[p].knowledge_base
        /\ objs[calls[p].chat_data].knowledge_base = calls[p].searched

\* the object has no similarity_search
LacksSearch(kb) == ~kb.valid

\* the object has a similarity_search whose results have no page_content
LacksPageContent(kb) == kb.valid /\ ~kb.docs_ok /\ kb.chunks # <<>>

\* C18: a chat call whose search node is given an object without a
\* similarity_search, or an index whose results have no page_content, ends in
\* that step with a RuntimeError, which the endpoint answers with 500 and not
\* with the 404 of a ValueError; it has invoked no model and returns nothing,
\* and the step changes no history.
C18_MalformedKnowledgeBaseFails ==
    /\ [](\A p \in Workers :
             LET c == calls[p] IN
             (/\ c.kind = "chat" /\ c.n_search = 1
              /\ LacksSearch(c.searched) \/ LacksPageContent(c.searched))
             => /\ c.pc = "done"
                /\ c.exc = "RuntimeError"
                /\ ChatStatus(c.exc) = 500
                /\ c.n_invoke = 0
                /\ c.response = <<>> /\ c.chat_history = <<>>)
    /\ [][\A p \in Workers :
             (/\ calls[p].kind = "chat" /\ calls[p].pc = "search"
              /\ calls'[p].n_search = 1
              /\ LacksSearch(calls[p].knowledge_base)
                    \/ LacksPageContent(calls[p].knowledge_base))
             => /\ \A r \in Refs : objs'[r].messages = objs[r].messages
                /\ memory' = memory]_vars

\* on a session with a history, one chat call failed on an object without a
\* similarity_search and another on results without page_content; the
\* history is as they found it
C18_Witness ==
    \E p, q \in Workers :
        /\ calls[p].n_search = 1 /\ LacksSearch(calls[p].searched)
        /\ calls[q].n_search = 1 /\ LacksPageContent(calls[q].searched)
        /\ calls[p].exc = "RuntimeError" /\ calls[q].exc = "RuntimeError"
        /\ calls[p].n_invoke = 0 /\ calls[q].n_invoke = 0
        /\ calls[p].seen # <<>>
        /\ objs[calls[p].chat_data].messages = calls[p].seen

====
